---- MODULE Spec2Model ----
(***************************************************************************)
(* Moderator bot: the complaint-decision and reserved-balance workflows.   *)
(*                                                                         *)
(* The relational store (users, complaints, generation_queue, admins,      *)
(* subcategories) is the shared state.  Every webhook delivery is one      *)
(* handler run; a run is suspended at each database statement and at each  *)
(* outbound send, so the runs of two deliveries interleave statement by    *)
(* statement.  A database call may fail while connecting (the error leaves *)
(* the db_* function) or while executing its statement (the error is       *)
(* handled as that db_* function handles it).                              *)
(***************************************************************************)
EXTENDS Integers, FiniteSets, Sequences, TLC

\* ------------------------------------------------------------------ bounds
MaxUpdates == 2
MaxFaults == 1
MaxExternal == 1

\* ------------------------------------------------------- nullable columns
\* A nullable column holds {} (SQL NULL / Python None) or a singleton {v}.
NULL == {}

Some(v) == {v}

COALESCE(x, d) == IF x = NULL THEN d ELSE CHOOSE v \in x : TRUE

\* ------------------------------------------------------------ fixed tables
Procs == {"w1", "w2"}

UserIds == {1, 2}

ComplaintRows == {1}

CallbackIds == {1, 2}

GenerationIds == {1}

FromIds == {10, 11}

admins == {[user_id |-> 10, is_active |-> TRUE], [user_id |-> 11, is_active |-> FALSE]}

ReservedAmount == 150

\* subcategories JOIN scenario: the rows the cost query can return.
subcategories ==
    [s \in {1, 2} |->
        IF s = 1
        THEN [is_active |-> TRUE, duration |-> Some(7), price |-> NULL, difficulty |-> Some("Medium")]
        ELSE [is_active |-> TRUE, duration |-> Some(10), price |-> Some(75), difficulty |-> NULL]]

\* -------------------------------------------------------------- cost policy
Lower(s) ==
    CASE s = "Low" -> "low"
      [] s = "LOW" -> "low"
      [] s = "Medium" -> "medium"
      [] s = "MEDIUM" -> "medium"
      [] s = "High" -> "high"
      [] s = "HIGH" -> "high"
      [] OTHER -> s

DefaultCost == 200

UnknownDifficultyCost == 110

cost_matrix(key, difficulty) ==
    CASE key = 5 /\ difficulty = "low" -> 70
      [] key = 5 /\ difficulty = "medium" -> 90
      [] key = 5 /\ difficulty = "high" -> 110
      [] key = 10 /\ difficulty = "low" -> 90
      [] key = 10 /\ difficulty = "medium" -> 110
      [] key = 10 /\ difficulty = "high" -> 130
      [] key = 15 /\ difficulty = "low" -> 110
      [] key = 15 /\ difficulty = "medium" -> 130
      [] key = 15 /\ difficulty = "high" -> 150
      [] OTHER -> UnknownDifficultyCost

\* The tiers with their upper ends left out.
duration_key_strict(duration) ==
    IF duration < 5 THEN 5 ELSE IF duration < 10 THEN 10 ELSE 15

duration_key(duration) ==
    IF duration <= 5 THEN 5 ELSE IF duration <= 10 THEN 10 ELSE 15

\* The body of db_get_generation_cost_by_subcategory once the row is fetched.
\* duration, price, difficulty are the nullable columns of the row.
CostOfRow(row) ==
    LET duration == IF row.duration # NULL /\ row.duration # Some(0)
                    THEN COALESCE(row.duration, 10) ELSE 10
        old_price == IF row.price # NULL /\ row.price # Some(0) THEN row.price ELSE NULL
        difficulty == row.difficulty
    IN  IF difficulty # NULL /\ difficulty # Some("")
        THEN cost_matrix(duration_key(duration), Lower(COALESCE(difficulty, "")))
        ELSE IF old_price # NULL
             THEN COALESCE(old_price, DefaultCost)
             ELSE DefaultCost

\* db_get_generation_cost_by_subcategory: f is what the store does to this call.
\* A connection error leaves the function; a statement error is logged and
\* answered with the default.
db_get_generation_cost_by_subcategory(subcategory_id, f) ==
    IF f = "conn" THEN [raised |-> TRUE, value |-> 0]
    ELSE IF f = "stmt" THEN [raised |-> FALSE, value |-> DefaultCost]
    ELSE IF subcategory_id \in DOMAIN subcategories /\ subcategories[subcategory_id].is_active
         THEN [raised |-> FALSE, value |-> CostOfRow(subcategories[subcategory_id])]
         ELSE [raised |-> FALSE, value |-> DefaultCost]

\* COMPLAINT_DECISIONS[action_key]
COMPLAINT_DECISIONS(action_key) ==
    IF action_key = "accept"
    THEN [status |-> "accepted", delta_sign |-> 1]
    ELSE [status |-> "rejected", delta_sign |-> -1]

\* ------------------------------------------------------------------- state
VARIABLES
    complaints,        \* complaints table: id -> row
    users,             \* users table: user_id -> [present, balance, reserved_balance]
    generation_queue,  \* generation_queue table: id -> [user_id, status]
    pc,                \* where the handler run of each delivery is suspended
    update,            \* the update each delivery carries
    complaint,         \* apply_complaint_decision: the fetched complaint
    generation_cost,   \* apply_complaint_decision: the resolved cost
    result,            \* apply_complaint_decision / release_reserved_balance return value
    reserved,          \* release_reserved_balance: reserved as read from db_get_user
    amount,            \* db_reset_reserved_balance: amount as read by its SELECT
    answer,            \* what the moderator was answered
    response,          \* the webhook's JSON response: "ok", "fail" or "none"
    outbox,            \* the notification each handler run delivered to an end user
    delivered,         \* number of updates delivered so far
    faults,            \* number of store failures so far
    external,          \* number of steps of the external generation service so far
    effect,            \* history: what the two writes of the running decision did
    connections,       \* the delivery slots whose database operation holds a connection
    attempts,          \* _get_db_conn: the outcome of each connect attempt made so far
    call,              \* the db_* operation each slot runs alone, and how it left
    cost_query,        \* db_get_generation_cost_by_subcategory: the row fetched, the cost returned
    shown,             \* the complaints each handler run has sent to the moderator
    bots,              \* bot table: id -> [token_hash, is_active, created_at]
    notice,            \* _notify_user: the hint, the bot record chosen, whether it sent
    payments,          \* payments table: id -> [present, status]
    buttons,           \* the payment_recheck callback data sent out in keyboards
    ledger,            \* history: per user, the costs of the accepts and rejects that returned
    storage            \* FSM storage of the dispatcher: the conversation state per sender

vars == <<complaints, users, generation_queue, pc, update, complaint, generation_cost,
          result, reserved, amount, answer, response, outbox, delivered,
          faults, external, effect, connections, attempts, call, cost_query, shown, bots, notice, ledger,
          payments, buttons, storage>>

store == <<complaints, users, generation_queue>>

locals == <<complaint, generation_cost, reserved, amount, effect>>

\* What the workflows, which take each db_* call as one step, leave alone.
views == <<shown, bots, notice, payments, buttons, storage>>

unit == <<connections, attempts, call, cost_query, views, ledger>>

NoCostQuery == [row |-> [duration |-> NULL, price |-> NULL, difficulty |-> NULL],
                value |-> NULL]

NoComplaint == [found |-> FALSE, id |-> 0, user_id |-> 0, subcategory_id |-> NULL,
                status |-> "", bot_id |-> NULL]

NoResult == [kind |-> "none", success |-> FALSE, user_id |-> 0, status |-> "",
             amount |-> 0, released |-> 0]

NoEffect == [status_after |-> "", balance_before |-> 0, balance_after |-> 0]

NoUpdate == [kind |-> "none", from_id |-> 0, arg |-> 0]

\* The updates delivered.  The two complaint handlers never read the sender,
\* so each comes with one sender: accept from the active admin, reject from
\* the inactive one; they treat a missing complaint alike, so the id without
\* a row comes with the reject.  The release handler asks db_is_admin before
\* it reads its target, so the inactive admin's release comes with one target.
Updates ==
    {[kind |-> "complaint_accept", from_id |-> 10, arg |-> 1]}
    \cup {[kind |-> "complaint_reject", from_id |-> 11, arg |-> a] : a \in CallbackIds}
    \cup {[kind |-> "user_release_reserved", from_id |-> 10, arg |-> u] : u \in UserIds}
    \cup {[kind |-> "user_release_reserved", from_id |-> 11, arg |-> 1]}

\* The stores the bot starts on: one pending complaint, with a subcategory or
\* without, owned by user 1 or by user 2; user 1 with reserved balance NULL,
\* 0 or positive and one generation, in flight or finished; no row for user
\* 2.  What the decision engine reads (the subcategory, the owner's balance)
\* and what the reservation guard reads (reserved balance, generations) are
\* disjoint, so they are not varied against each other.
InitialStores ==
    {[owner |-> 2, subcategory_id |-> NULL, reserved_balance |-> NULL,
      status |-> Some("processing")],
     [owner |-> 1, subcategory_id |-> Some(1), reserved_balance |-> Some(0),
      status |-> Some("success")],
     [owner |-> 1, subcategory_id |-> NULL, reserved_balance |-> Some(ReservedAmount),
      status |-> Some("processing")],
     [owner |-> 1, subcategory_id |-> Some(1), reserved_balance |-> Some(ReservedAmount),
      status |-> Some("success")]}

\* No update delivered, no handler run started.
InitRuns ==
    /\ pc = [p \in Procs |-> "idle"]
    /\ update = [p \in Procs |-> NoUpdate]
    /\ complaint = [p \in Procs |-> NoComplaint]
    /\ generation_cost = [p \in Procs |-> 0]
    /\ result = [p \in Procs |-> NoResult]
    /\ reserved = [p \in Procs |-> 0]
    /\ amount = [p \in Procs |-> 0]
    /\ answer = [p \in Procs |-> "none"]
    /\ response = [p \in Procs |-> "none"]
    /\ outbox = [p \in Procs |-> {}]
    /\ delivered = 0
    /\ faults = 0
    /\ external = 0
    /\ effect = [p \in Procs |-> NoEffect]

NoCall == [op |-> "none", exit |-> "none"]

NoRenders == [renders |-> {}, sent |-> {}]

NoNotice == [hint |-> NULL, bot |-> NULL, sent |-> FALSE, raised |-> FALSE]

\* Nothing shown to a moderator yet, no notification under way.
InitViews ==
    /\ shown = [p \in Procs |-> NoRenders]
    /\ notice = [p \in Procs |-> NoNotice]
    /\ ledger = [u \in UserIds |-> [accepted |-> 0, rejected |-> 0]]
    /\ storage = [id \in FromIds |-> NULL]

\* The tables only the handlers taken alone read: one active bot, one
\* pending payment, no keyboard sent yet.
InitBotRows ==
    bots = [b \in {1} |-> [token_hash |-> "h1", is_active |-> TRUE, created_at |-> 1]]

InitPaymentRows ==
    /\ payments = [y \in {1} |-> [present |-> TRUE, status |-> "pending"]]
    /\ buttons = {}

InitTables == InitBotRows /\ InitPaymentRows

\* No connection open, no connect attempt made.
InitGateway ==
    /\ connections = {}
    /\ attempts = [p \in Procs |-> <<>>]
    /\ call = [p \in Procs |-> NoCall]

\* The store as one of InitialStores describes it.
InitStore(i) ==
    /\ complaints = [c \in ComplaintRows |->
                        [user_id |-> i.owner, subcategory_id |-> i.subcategory_id,
                         status |-> "pending", dispatched |-> FALSE, bot_id |-> NULL]]
    /\ users = [u \in UserIds |->
                   IF u = 1
                   THEN [present |-> TRUE, balance |-> Some(0),
                         reserved_balance |-> i.reserved_balance]
                   ELSE [present |-> FALSE, balance |-> NULL, reserved_balance |-> NULL]]
    /\ generation_queue = [g \in GenerationIds |-> [user_id |-> 1, status |-> i.status]]

Init ==
    /\ \E i \in InitialStores : InitStore(i)
    /\ InitRuns
    /\ InitGateway
    /\ InitViews
    /\ InitTables
    /\ cost_query = NoCostQuery

\* What the store may do to one database call.
FaultChoices == IF faults < MaxFaults THEN {"ok", "conn", "stmt"} ELSE {"ok"}

CountFault(f) == faults' = IF f = "ok" THEN faults ELSE faults + 1

\* The handler run is over: the frames of the handler and of the service
\* function it called are gone, their locals with them.
Return(p) ==
    /\ pc' = [pc EXCEPT ![p] = "done"]
    /\ complaint' = [complaint EXCEPT ![p] = NoComplaint]
    /\ generation_cost' = [generation_cost EXCEPT ![p] = 0]
    /\ reserved' = [reserved EXCEPT ![p] = 0]
    /\ amount' = [amount EXCEPT ![p] = 0]
    /\ effect' = [effect EXCEPT ![p] = NoEffect]

\* handle_webhook without its except clause: the run ends and no response is
\* returned.
Raise_unanswered(p) ==
    /\ Return(p)
    /\ UNCHANGED <<answer, result, response>>

\* handle_webhook: an exception of the handler run is caught and answered
\* {"ok": false}; a finished run is answered {"ok": true}.
Raise(p) ==
    /\ Return(p)
    /\ response' = [response EXCEPT ![p] = "fail"]
    /\ UNCHANGED <<answer, result>>

Finish(p, text, value) ==
    /\ Return(p)
    /\ answer' = [answer EXCEPT ![p] = text]
    /\ response' = [response EXCEPT ![p] = "ok"]
    /\ result' = [result EXCEPT ![p] = value]

\* The run is suspended at its next database call.
Goto(p, label) ==
    /\ pc' = [pc EXCEPT ![p] = label]
    /\ UNCHANGED <<answer, response>>

\* ------------------------------------------------------- database gateway
\* db_is_admin: COUNT(*) of the active admins rows of this user_id > 0; a
\* statement error is logged and answered False.
db_is_admin(user_id, f) ==
    IF f = "conn" THEN [raised |-> TRUE, value |-> FALSE]
    ELSE IF f = "stmt" THEN [raised |-> FALSE, value |-> FALSE]
    ELSE [raised |-> FALSE,
          value |-> Cardinality({a \in admins : a.user_id = user_id /\ a.is_active}) > 0]

\* Record.get(key, default) of the driver: the value under a column label,
\* the default when the row has no column of that label.
RecordGet(row, key, default) == IF key \in DOMAIN row THEN row[key] ELSE default

\* The row db_get_user's SELECT returns, keyed by column label.  The select
\* list is  user_id, ..., balance, ..., COALESCE(reserved_balance, 0), ...
\* with no alias, so PostgreSQL labels that column "coalesce".
UserRow(user_id) ==
    [user_id |-> user_id,
     balance |-> users[user_id].balance,
     coalesce |-> COALESCE(users[user_id].reserved_balance, 0)]

\* db_get_user: no except clause, so both kinds of failure leave the function.
db_get_user(user_id, f) ==
    IF f # "ok" THEN [raised |-> TRUE, found |-> FALSE, user_id |-> 0, reserved_balance |-> 0]
    ELSE IF user_id \in UserIds /\ users[user_id].present
         THEN [raised |-> FALSE, found |-> TRUE,
               user_id |-> UserRow(user_id)["user_id"],
               reserved_balance |-> RecordGet(UserRow(user_id), "reserved_balance", 0)]
         ELSE [raised |-> FALSE, found |-> FALSE, user_id |-> 0, reserved_balance |-> 0]

\* db_get_complaint_by_id: a statement error is logged and answered None.
db_get_complaint_by_id(complaint_id, f) ==
    IF f = "conn" THEN [raised |-> TRUE, row |-> NoComplaint]
    ELSE IF f = "stmt" THEN [raised |-> FALSE, row |-> NoComplaint]
    ELSE IF complaint_id \in DOMAIN complaints
         THEN [raised |-> FALSE,
               row |-> [found |-> TRUE, id |-> complaint_id,
                        user_id |-> complaints[complaint_id].user_id,
                        subcategory_id |-> complaints[complaint_id].subcategory_id,
                        status |-> complaints[complaint_id].status,
                        bot_id |-> complaints[complaint_id].bot_id]]
         ELSE [raised |-> FALSE, row |-> NoComplaint]

\* db_update_complaint_status marking the complaint dispatched as well.
db_update_complaint_status_dispatching(complaint_id, status, f) ==
    IF f = "conn" THEN [raised |-> TRUE, value |-> FALSE, table |-> complaints]
    ELSE IF f = "stmt" THEN [raised |-> FALSE, value |-> FALSE, table |-> complaints]
    ELSE [raised |-> FALSE, value |-> TRUE,
          table |-> [c \in DOMAIN complaints |->
                        IF c = complaint_id
                        THEN [complaints[c] EXCEPT !.status = status, !.dispatched = TRUE]
                        ELSE complaints[c]]]

\* db_update_complaint_status: UPDATE complaints SET status WHERE id, with no
\* condition on the current status.  A statement error is logged and answered
\* False; the table is then as it was.
db_update_complaint_status(complaint_id, status, f) ==
    IF f = "conn" THEN [raised |-> TRUE, value |-> FALSE, table |-> complaints]
    ELSE IF f = "stmt" THEN [raised |-> FALSE, value |-> FALSE, table |-> complaints]
    ELSE [raised |-> FALSE, value |-> TRUE,
          table |-> [c \in DOMAIN complaints |->
                        IF c = complaint_id
                        THEN [complaints[c] EXCEPT !.status = status]
                        ELSE complaints[c]]]

\* db_add_credits writing the balance from a value read as 0 beforehand
\* instead of adding to the stored one.
db_add_credits_absolute(user_id, delta, f) ==
    IF f # "ok" THEN [raised |-> TRUE, table |-> users]
    ELSE [raised |-> FALSE,
          table |-> [users EXCEPT ![user_id] =
                        [present |-> TRUE, balance |-> Some(delta),
                         reserved_balance |-> IF @.present THEN @.reserved_balance ELSE NULL]]]

\* db_add_credits with its failure logged and swallowed.
db_add_credits_swallowing(user_id, delta, f) ==
    IF f # "ok" THEN [raised |-> FALSE, table |-> users]
    ELSE LET inserted == [users EXCEPT ![user_id] =
                            IF @.present THEN @
                            ELSE [present |-> TRUE, balance |-> Some(0),
                                  reserved_balance |-> NULL]]
         IN  [raised |-> FALSE,
              table |-> [inserted EXCEPT ![user_id].balance =
                            Some(COALESCE(inserted[user_id].balance, 0) + delta)]]

\* db_add_credits with an INSERT that sets the balance of a row it finds to 0.
db_add_credits_resetting(user_id, delta, f) ==
    IF f # "ok" THEN [raised |-> TRUE, table |-> users]
    ELSE LET inserted == [users EXCEPT ![user_id] =
                            IF @.present THEN [@ EXCEPT !.balance = Some(0)]
                            ELSE [present |-> TRUE, balance |-> Some(0),
                                  reserved_balance |-> NULL]]
         IN  [raised |-> FALSE,
              table |-> [inserted EXCEPT ![user_id].balance =
                            Some(COALESCE(inserted[user_id].balance, 0) + delta)]]

\* db_add_credits: one transaction of INSERT ... ON CONFLICT DO NOTHING and a
\* relative UPDATE; no except clause, a failure rolls back and leaves the
\* function.  The columns the INSERT does not name are left NULL.
db_add_credits(user_id, delta, f) ==
    IF f # "ok" THEN [raised |-> TRUE, table |-> users]
    ELSE LET inserted == [users EXCEPT ![user_id] =
                            IF @.present THEN @
                            ELSE [present |-> TRUE, balance |-> Some(0),
                                  reserved_balance |-> NULL]]
         IN  [raised |-> FALSE,
              table |-> [inserted EXCEPT ![user_id].balance =
                            Some(COALESCE(inserted[user_id].balance, 0) + delta)]]

\* db_user_has_active_generations answering False after a statement error.
db_user_has_active_generations_open(user_id, f) ==
    IF f = "conn" THEN [raised |-> TRUE, value |-> TRUE]
    ELSE IF f = "stmt" THEN [raised |-> FALSE, value |-> FALSE]
    ELSE [raised |-> FALSE,
          value |-> \E g \in DOMAIN generation_queue :
                       /\ generation_queue[g].user_id = user_id
                       /\ COALESCE(generation_queue[g].status, "processing")
                             \notin {"failed", "success", "completed"}]

\* db_user_has_active_generations without the COALESCE: a generation of no
\* status is not counted.
db_user_has_active_generations_present_only(user_id, f) ==
    IF f = "conn" THEN [raised |-> TRUE, value |-> TRUE]
    ELSE IF f = "stmt" THEN [raised |-> FALSE, value |-> TRUE]
    ELSE [raised |-> FALSE,
          value |-> \E g \in DOMAIN generation_queue :
                       /\ generation_queue[g].user_id = user_id
                       /\ generation_queue[g].status # NULL
                       /\ generation_queue[g].status
                             \notin {Some("failed"), Some("success"), Some("completed")}]

\* db_user_has_active_generations: EXISTS a generation of the user whose
\* COALESCE(status, 'processing') is none of failed, success, completed; a
\* statement error is logged and answered True.
db_user_has_active_generations(user_id, f) ==
    IF f = "conn" THEN [raised |-> TRUE, value |-> TRUE]
    ELSE IF f = "stmt" THEN [raised |-> FALSE, value |-> TRUE]
    ELSE [raised |-> FALSE,
          value |-> \E g \in DOMAIN generation_queue :
                       /\ generation_queue[g].user_id = user_id
                       /\ COALESCE(generation_queue[g].status, "processing")
                             \notin {"failed", "success", "completed"}]

\* ------------------------------------------------------- webhook delivery
\* POST /moderator: the dispatcher routes the update by its callback data to
\* one handler.  The slots being alike, a delivery takes the first slot never
\* used, and a slot whose run has finished when every slot has been used.
FirstLabel(kind) ==
    IF kind = "user_release_reserved" THEN "release_admin" ELSE "decide_get"

handle_webhook(p) ==
    /\ \/ pc[p] = "idle" /\ (p = "w1" \/ pc["w1"] # "idle")
       \/ pc[p] = "done" /\ \A q \in Procs : pc[q] # "idle"
    /\ delivered < MaxUpdates
    /\ delivered' = delivered + 1
    /\ \E u \in Updates :
          /\ update' = [update EXCEPT ![p] = u]
          /\ pc' = [pc EXCEPT ![p] = FirstLabel(u.kind)]
    /\ result' = [result EXCEPT ![p] = NoResult]
    /\ answer' = [answer EXCEPT ![p] = "none"]
    /\ response' = [response EXCEPT ![p] = "none"]
    /\ outbox' = [outbox EXCEPT ![p] = {}]
    /\ UNCHANGED <<store, locals, faults, external, unit>>

\* ------------------------------------------------------- decision engine
action_key(p) == IF update[p].kind = "complaint_accept" THEN "accept" ELSE "reject"

\* The same step with the "if not complaint: return None" test left out.
apply_complaint_decision_get_unchecked(p) ==
    /\ pc[p] = "decide_get"
    /\ \E f \in FaultChoices :
          LET r == db_get_complaint_by_id(update[p].arg, f)
          IN  /\ CountFault(f)
              /\ IF r.raised
                 THEN Raise(p)
                 ELSE /\ Goto(p, "decide_status")
                      /\ complaint' = [complaint EXCEPT ![p] = r.row]
                      /\ UNCHANGED <<generation_cost, reserved, amount, effect, result>>
    /\ UNCHANGED <<store, update, outbox, delivered, external, unit>>

\* handle_complaint_accept / handle_complaint_reject up to the first
\* statement of apply_complaint_decision: db_get_complaint_by_id.  Neither
\* handler asks is_moderator.  With no complaint the service answers None and
\* the handler alerts "complaint not found".
apply_complaint_decision_get(p) ==
    /\ pc[p] = "decide_get"
    /\ \E f \in FaultChoices :
          LET r == db_get_complaint_by_id(update[p].arg, f)
          IN  /\ CountFault(f)
              /\ IF r.raised
                 THEN Raise(p)
                 ELSE IF ~r.row.found
                      THEN Finish(p, "complaint_not_found", NoResult)
                      ELSE /\ Goto(p, "decide_status")
                           /\ complaint' = [complaint EXCEPT ![p] = r.row]
                           /\ UNCHANGED <<generation_cost, reserved, amount, effect, result>>
    /\ UNCHANGED <<store, update, outbox, delivered, external, unit>>

\* apply_complaint_decision: db_update_complaint_status, its return value
\* unused; then the cost is 200 unless the complaint names a subcategory.
apply_complaint_decision_status(p) ==
    /\ pc[p] = "decide_status"
    /\ \E f \in FaultChoices :
          LET r == db_update_complaint_status(complaint[p].id,
                                              COMPLAINT_DECISIONS(action_key(p)).status, f)
          IN  /\ CountFault(f)
              /\ complaints' = r.table
              /\ IF r.raised
                 THEN Raise(p)
                 ELSE /\ effect' = [effect EXCEPT
                                       ![p].status_after = r.table[complaint[p].id].status]
                      /\ UNCHANGED <<complaint, reserved, amount, result>>
                      /\ IF complaint[p].subcategory_id \notin {NULL, Some(0)}
                         THEN Goto(p, "decide_cost") /\ UNCHANGED generation_cost
                         ELSE /\ Goto(p, "decide_credit")
                              /\ generation_cost' = [generation_cost EXCEPT ![p] = DefaultCost]
    /\ UNCHANGED <<users, generation_queue, update, outbox, delivered, external, unit>>

\* apply_complaint_decision: db_get_generation_cost_by_subcategory.
apply_complaint_decision_cost(p) ==
    /\ pc[p] = "decide_cost"
    /\ \E f \in FaultChoices :
          LET r == db_get_generation_cost_by_subcategory(
                       COALESCE(complaint[p].subcategory_id, 0), f)
          IN  /\ CountFault(f)
              /\ IF r.raised
                 THEN Raise(p)
                 ELSE /\ Goto(p, "decide_credit")
                      /\ generation_cost' = [generation_cost EXCEPT ![p] = r.value]
                      /\ UNCHANGED <<complaint, reserved, amount, effect, result>>
    /\ UNCHANGED <<store, update, outbox, delivered, external, unit>>

\* apply_complaint_decision: db_add_credits(user_id, cost * delta_sign) and the
\* ComplaintDecisionResult it returns.
apply_complaint_decision_credit(p) ==
    /\ pc[p] = "decide_credit"
    /\ \E f \in FaultChoices :
          LET config == COMPLAINT_DECISIONS(action_key(p))
              r == db_add_credits(complaint[p].user_id,
                                  generation_cost[p] * config.delta_sign, f)
          IN  /\ CountFault(f)
              /\ users' = r.table
              /\ IF r.raised
                 THEN Raise(p) /\ UNCHANGED ledger
                 ELSE /\ Goto(p, "notify")
                      /\ effect' = [effect EXCEPT
                            ![p].balance_before = COALESCE(users[complaint[p].user_id].balance, 0),
                            ![p].balance_after = COALESCE(r.table[complaint[p].user_id].balance, 0)]
                      /\ result' = [result EXCEPT ![p] =
                            [kind |-> "decision", success |-> TRUE,
                             user_id |-> complaint[p].user_id, status |-> config.status,
                             amount |-> generation_cost[p], released |-> 0]]
                      /\ ledger' = [ledger EXCEPT ![complaint[p].user_id] =
                            IF config.delta_sign = 1
                            THEN [@ EXCEPT !.accepted = @ + generation_cost[p]]
                            ELSE [@ EXCEPT !.rejected = @ + generation_cost[p]]]
                      /\ UNCHANGED <<complaint, generation_cost, reserved, amount>>
    /\ UNCHANGED <<complaints, generation_queue, update, outbox, delivered, external,
                   connections, attempts, call, cost_query, views>>

\* The notification with the success acknowledgement whatever _notify_user
\* returned.
_notify_user_always_success(p) ==
    /\ pc[p] = "notify"
    /\ \E notified \in BOOLEAN :
          /\ outbox' = [outbox EXCEPT ![p] =
                          IF notified
                          THEN {[user_id |-> result[p].user_id,
                                 complaint_id |-> complaint[p].id,
                                 status |-> result[p].status]}
                          ELSE {}]
          /\ Finish(p, "moderator_success", result[p])
    /\ UNCHANGED <<store, update, delivered, faults, external, unit>>

\* _notify_user and the moderator's acknowledgement: the send succeeds or not
\* (every failure inside _notify_user is caught and answered False).  Closing
\* the bot session after the send and cb.answer are taken to succeed.
_notify_user(p) ==
    /\ pc[p] = "notify"
    /\ \E notified \in BOOLEAN :
          /\ outbox' = [outbox EXCEPT ![p] =
                          IF notified
                          THEN {[user_id |-> result[p].user_id,
                                 complaint_id |-> complaint[p].id,
                                 status |-> result[p].status]}
                          ELSE {}]
          /\ Finish(p, IF notified THEN "moderator_success" ELSE "moderator_warning",
                    result[p])
    /\ UNCHANGED <<store, update, delivered, faults, external, unit>>

\* --------------------------------------------------- reservation guard
ReleaseReservedResult(success, released, message) ==
    [kind |-> message, success |-> success, user_id |-> 0, status |-> "",
     amount |-> 0, released |-> released]

\* handle_user_release_reserved: the moderator check that opens the handler.
handle_user_release_reserved(p) ==
    /\ pc[p] = "release_admin"
    /\ \E f \in FaultChoices :
          LET r == db_is_admin(update[p].from_id, f)
          IN  /\ CountFault(f)
              /\ IF r.raised THEN Raise(p)
                 ELSE IF ~r.value THEN Finish(p, "no_access", NoResult)
                 ELSE Goto(p, "release_get") /\ UNCHANGED <<locals, result>>
    /\ UNCHANGED <<store, update, outbox, delivered, external, unit>>

\* The test with the zero case left out.
NothingToRelease_Negative(r) == r < 0

\* The reserved <= 0 test of release_reserved_balance.
NothingToRelease(r) == r <= 0

\* release_reserved_balance, first statement: db_get_user, then
\* reserved = int(user_data.get("reserved_balance") or 0).
release_get_user(p, f) ==
    LET r == db_get_user(update[p].arg, f)
    IN  /\ UNCHANGED store
        /\ IF r.raised
           THEN Raise(p)
           ELSE IF ~r.found
                THEN Finish(p, "user_not_found",
                            ReleaseReservedResult(FALSE, 0, "user_not_found"))
                ELSE IF NothingToRelease(r.reserved_balance)
                     THEN Finish(p, "nothing_to_release",
                                 ReleaseReservedResult(FALSE, 0, "nothing_to_release"))
                     ELSE /\ Goto(p, "release_active")
                          /\ reserved' = [reserved EXCEPT ![p] = r.reserved_balance]
                          /\ UNCHANGED <<complaint, generation_cost, amount, effect, result>>

\* release_reserved_balance: db_user_has_active_generations and the refusal.
release_check_active(p, f) ==
    LET r == db_user_has_active_generations(update[p].arg, f)
    IN  /\ UNCHANGED store
        /\ IF r.raised
           THEN Raise(p)
           ELSE IF r.value
                THEN Finish(p, "active_generations",
                            ReleaseReservedResult(FALSE, reserved[p], "active_generations"))
                ELSE Goto(p, "release_select") /\ UNCHANGED <<locals, result>>

\* The same step taking the amount the caller's check saw for the amount read.
db_reset_reserved_balance_select_trusting(p, f) ==
    /\ UNCHANGED store
    /\ IF f = "conn"
       THEN Raise(p)
       ELSE IF f = "stmt" \/ reserved[p] <= 0
            THEN Finish(p, "release_failed",
                        ReleaseReservedResult(FALSE, 0, "release_failed"))
            ELSE /\ Goto(p, "release_update")
                 /\ amount' = [amount EXCEPT ![p] = reserved[p]]
                 /\ UNCHANGED <<complaint, generation_cost, reserved, effect, result>>

\* db_reset_reserved_balance, the SELECT: amount = COALESCE(reserved_balance, 0)
\* of the row (None without a row); no amount, a non-positive amount or a
\* statement error return 0, which release_reserved_balance reports as failure.
db_reset_reserved_balance_select(p, f) ==
    LET u == update[p].arg
        read == IF users[u].present THEN COALESCE(users[u].reserved_balance, 0) ELSE 0
    IN  /\ UNCHANGED store
        /\ IF f = "conn"
           THEN Raise(p)
           ELSE IF f = "stmt" \/ read <= 0
                THEN Finish(p, "release_failed",
                            ReleaseReservedResult(FALSE, 0, "release_failed"))
                ELSE /\ Goto(p, "release_update")
                     /\ amount' = [amount EXCEPT ![p] = read]
                     /\ UNCHANGED <<complaint, generation_cost, reserved, effect, result>>

\* db_reset_reserved_balance, the UPDATE users SET reserved_balance = 0 and
\* the return of the amount read before it.
db_reset_reserved_balance_update(p, f) ==
    LET u == update[p].arg
    IN  /\ UNCHANGED <<complaints, generation_queue>>
        /\ IF f # "ok"
           THEN /\ Finish(p, "release_failed",
                          ReleaseReservedResult(FALSE, 0, "release_failed"))
                /\ UNCHANGED users
           ELSE /\ users' = [users EXCEPT ![u].reserved_balance =
                                IF users[u].present THEN Some(0) ELSE @]
                /\ Finish(p, "released",
                          ReleaseReservedResult(TRUE, amount[p], "released"))

\* release_reserved_balance: one statement of the service per step.
release_reserved_balance(p) ==
    /\ pc[p] \in {"release_get", "release_active", "release_select", "release_update"}
    /\ \E f \in FaultChoices :
          /\ CountFault(f)
          /\ IF pc[p] = "release_get" THEN release_get_user(p, f)
             ELSE IF pc[p] = "release_active" THEN release_check_active(p, f)
             ELSE IF pc[p] = "release_select" THEN db_reset_reserved_balance_select(p, f)
             ELSE db_reset_reserved_balance_update(p, f)
    /\ UNCHANGED <<update, outbox, delivered, external, unit>>

\* ------------------------------------------------ the generation service
\* The service outside this repository reserves credits for a generation and
\* moves generations through their statuses.
ExternalReserve(u) ==
    /\ external < MaxExternal
    /\ users[u].present
    /\ external' = external + 1
    /\ users' = [users EXCEPT ![u].reserved_balance =
                    Some(COALESCE(users[u].reserved_balance, 0) + ReservedAmount)]
    /\ UNCHANGED <<complaints, generation_queue, pc, update, locals, result, answer,
                   response, outbox, delivered, faults, unit>>

ExternalGeneration(g) ==
    /\ external < MaxExternal
    /\ external' = external + 1
    /\ \E s \in {"processing", "success", "failed"} :
          /\ generation_queue[g].status # Some(s)
          /\ generation_queue' = [generation_queue EXCEPT ![g].status = Some(s)]
    /\ UNCHANGED <<complaints, users, pc, update, locals, result, answer, response,
                   outbox, delivered, faults, unit>>

Next ==
    \/ \E p \in Procs : handle_webhook(p)
    \/ \E p \in Procs : apply_complaint_decision_get(p)
    \/ \E p \in Procs : apply_complaint_decision_status(p)
    \/ \E p \in Procs : apply_complaint_decision_cost(p)
    \/ \E p \in Procs : apply_complaint_decision_credit(p)
    \/ \E p \in Procs : _notify_user(p)
    \/ \E p \in Procs : handle_user_release_reserved(p)
    \/ \E p \in Procs : release_reserved_balance(p)
    \/ \E u \in UserIds : ExternalReserve(u)
    \/ \E g \in GenerationIds : ExternalGeneration(g)

Spec == Init /\ [][Next]_vars

\* ------------------------------------- the release past its reserved check
\* release_reserved_balance from its second database call on: the run has
\* read a reserved balance above 0 and goes on to
\* db_user_has_active_generations and db_reset_reserved_balance.  (From
\* db_get_user as it is no run gets here; this specification takes the two
\* functions as a caller that read the stored reserved balance and found it
\* above 0 meets them.)
release_reserved_balance_checked(p) ==
    /\ \/ pc[p] = "idle" /\ (p = "w1" \/ pc["w1"] # "idle")
       \/ pc[p] = "done" /\ \A q \in Procs : pc[q] # "idle"
    /\ delivered < MaxUpdates
    /\ delivered' = delivered + 1
    /\ \E u \in UserIds :
          /\ users[u].present
          /\ COALESCE(users[u].reserved_balance, 0) > 0
          /\ update' = [update EXCEPT ![p] =
                           [kind |-> "user_release_reserved", from_id |-> 10, arg |-> u]]
          /\ reserved' = [reserved EXCEPT ![p] = COALESCE(users[u].reserved_balance, 0)]
    /\ pc' = [pc EXCEPT ![p] = "release_active"]
    /\ result' = [result EXCEPT ![p] = NoResult]
    /\ answer' = [answer EXCEPT ![p] = "none"]
    /\ response' = [response EXCEPT ![p] = "none"]
    /\ outbox' = [outbox EXCEPT ![p] = {}]
    /\ UNCHANGED <<store, complaint, generation_cost, amount, effect, faults, external, unit>>

NextGuard ==
    \/ \E p \in Procs : release_reserved_balance_checked(p)
    \/ \E p \in Procs : release_reserved_balance(p)
    \/ \E u \in UserIds : ExternalReserve(u)
    \/ \E g \in GenerationIds : ExternalGeneration(g)

SpecGuard == Init /\ [][NextGuard]_vars

\* --------------------------------- the release over any generation queue
\* The release past its reserved check, as in SpecGuard, over generation
\* queues of two rows of any owner and any status, the absent one included.
GenerationStatuses ==
    {NULL, Some("processing"), Some("failed"), Some("success"), Some("completed")}

InitActive ==
    /\ complaints = [c \in ComplaintRows |->
                        [user_id |-> 1, subcategory_id |-> NULL, status |-> "pending",
                         dispatched |-> FALSE, bot_id |-> NULL]]
    /\ users = [u \in UserIds |->
                   [present |-> TRUE, balance |-> Some(0),
                    reserved_balance |-> Some(ReservedAmount)]]
    /\ generation_queue \in [{1, 2} -> [user_id : UserIds, status : GenerationStatuses]]
    /\ InitRuns
    /\ InitGateway
    /\ InitViews
    /\ InitTables
    /\ cost_query = NoCostQuery

SpecActive == InitActive /\ [][NextGuard]_vars

\* ------------------------------------------- the cost function taken alone
\* The rows db_get_generation_cost_by_subcategory may fetch: s.duration,
\* s.price and sc.difficulty, each nullable.
MaxDuration == 20

Durations == {NULL} \cup {Some(d) : d \in 0..MaxDuration}

Prices == {NULL, Some(0), Some(75)}

Difficulties ==
    {NULL} \cup {Some(t) : t \in {"", "low", "Low", "LOW", "medium", "Medium", "MEDIUM",
                                  "high", "High", "HIGH", "extreme"}}

CostRows == [duration : Durations, price : Prices, difficulty : Difficulties]

InitCost ==
    /\ InitStore(CHOOSE i \in InitialStores : i.subcategory_id = NULL /\ i.reserved_balance = NULL)
    /\ InitRuns
    /\ InitGateway
    /\ InitViews
    /\ InitTables
    /\ \E row \in CostRows : cost_query = [row |-> row, value |-> NULL]

\* db_get_generation_cost_by_subcategory from the fetched row to its return
db_get_generation_cost_by_subcategory_row ==
    /\ cost_query.value = NULL
    /\ cost_query' = [cost_query EXCEPT !.value = Some(CostOfRow(cost_query.row))]
    /\ UNCHANGED <<store, pc, update, locals, result, answer, response, outbox,
                   delivered, faults, external, connections, attempts, call, views, ledger>>

NextCost == db_get_generation_cost_by_subcategory_row

SpecCost == InitCost /\ [][NextCost]_vars

\* ------------------------------------------------ the complaint listings
\* on_main_complaints, handle_complaints_list and handle_user_complaints:
\* the pending complaints are fetched, sent to the moderator one by one and,
\* where the handler asks for it, marked dispatched.
DispatchRows == {1, 2}

ListKinds == {"main_complaints", "complaints_list", "user_complaints"}

\* The listing updates delivered: each listing from the active admin, the
\* main list from the inactive one as well.
ListUpdates ==
    {[kind |-> k, from_id |-> 10, arg |-> 1] : k \in ListKinds}
    \cup {[kind |-> "main_complaints", from_id |-> 11, arg |-> 1]}

\* mark_dispatched as the handler passes it to _send_complaints_list
mark_dispatched(kind) == kind # "user_complaints"

InitDispatch ==
    /\ \E status \in [DispatchRows -> {"pending", "accepted"}],
          dispatched \in [DispatchRows -> BOOLEAN] :
          complaints = [c \in DispatchRows |->
                           [user_id |-> 1, subcategory_id |-> NULL, status |-> status[c],
                            dispatched |-> dispatched[c], bot_id |-> NULL]]
    /\ users = [u \in UserIds |->
                   [present |-> u = 1, balance |-> IF u = 1 THEN Some(0) ELSE NULL,
                    reserved_balance |-> NULL]]
    /\ generation_queue = [g \in GenerationIds |-> [user_id |-> 1, status |-> Some("success")]]
    /\ InitRuns
    /\ InitGateway
    /\ InitViews
    /\ InitTables
    /\ cost_query = NoCostQuery

\* db_list_pending_complaints(not_dispatched_only) and
\* db_get_user_pending_complaints(user_id): the ids of the rows selected; a
\* statement error is logged and answered with the empty list.
db_list_pending_complaints(not_dispatched_only, f) ==
    IF f = "conn" THEN [raised |-> TRUE, value |-> {}]
    ELSE IF f = "stmt" THEN [raised |-> FALSE, value |-> {}]
    ELSE [raised |-> FALSE,
          value |-> {c \in DOMAIN complaints :
                        /\ complaints[c].status = "pending"
                        /\ (not_dispatched_only => ~complaints[c].dispatched)}]

db_get_user_pending_complaints(user_id, f) ==
    IF f = "conn" THEN [raised |-> TRUE, value |-> {}]
    ELSE IF f = "stmt" THEN [raised |-> FALSE, value |-> {}]
    ELSE [raised |-> FALSE,
          value |-> {c \in DOMAIN complaints :
                        complaints[c].user_id = user_id /\ complaints[c].status = "pending"}]

\* db_mark_complaints_dispatched: UPDATE complaints SET dispatched = TRUE
\* WHERE id = ANY(ids); a statement error is logged and answered False.
db_mark_complaints_dispatched(ids, f) ==
    IF f = "conn" THEN [raised |-> TRUE, value |-> FALSE, table |-> complaints]
    ELSE IF f = "stmt" THEN [raised |-> FALSE, value |-> FALSE, table |-> complaints]
    ELSE [raised |-> FALSE, value |-> TRUE,
          table |-> [c \in DOMAIN complaints |->
                        IF c \in ids THEN [complaints[c] EXCEPT !.dispatched = TRUE]
                        ELSE complaints[c]]]

\* What the steps of a listing that set shown leave alone besides.
listing_frame == <<connections, attempts, call, cost_query, bots, notice, ledger,
                   payments, buttons, storage>>

\* A listing update is delivered.
handle_listing(p) ==
    /\ \/ pc[p] = "idle" /\ (p = "w1" \/ pc["w1"] # "idle")
       \/ pc[p] = "done" /\ \A q \in Procs : pc[q] # "idle"
    /\ delivered < MaxUpdates
    /\ delivered' = delivered + 1
    /\ \E u \in ListUpdates : update' = [update EXCEPT ![p] = u]
    /\ pc' = [pc EXCEPT ![p] = "list_admin"]
    /\ result' = [result EXCEPT ![p] = NoResult]
    /\ answer' = [answer EXCEPT ![p] = "none"]
    /\ response' = [response EXCEPT ![p] = "none"]
    /\ outbox' = [outbox EXCEPT ![p] = {}]
    /\ shown' = [shown EXCEPT ![p] = NoRenders]
    /\ UNCHANGED <<store, locals, faults, external, listing_frame>>

\* if not await services.is_moderator(...): return
listing_is_moderator(p) ==
    /\ pc[p] = "list_admin"
    /\ \E f \in FaultChoices :
          LET r == db_is_admin(update[p].from_id, f)
          IN  /\ CountFault(f)
              /\ IF r.raised
                 THEN Raise(p)
                 ELSE IF r.value
                      THEN Goto(p, "list_fetch") /\ UNCHANGED <<locals, result>>
                      ELSE Finish(p, "no_access", NoResult)
    /\ UNCHANGED <<store, update, outbox, delivered, external, unit>>

\* renders = await services.get_pending_complaints() / get_user_complaints()
listing_fetch(p) ==
    /\ pc[p] = "list_fetch"
    /\ \E f \in FaultChoices :
          LET r == IF update[p].kind = "user_complaints"
                   THEN db_get_user_pending_complaints(update[p].arg, f)
                   ELSE db_list_pending_complaints(FALSE, f)
          IN  /\ CountFault(f)
              /\ IF r.raised
                 THEN Raise(p) /\ UNCHANGED shown
                 ELSE IF r.value = {}
                      THEN Finish(p, "no_complaints", NoResult) /\ UNCHANGED shown
                      ELSE /\ Goto(p, "list_send")
                           /\ shown' = [shown EXCEPT ![p].renders = r.value]
                           /\ UNCHANGED <<locals, result>>
    /\ UNCHANGED <<store, update, outbox, delivered, external,
                   listing_frame>>

\* _send_complaints_list, for render in renders: every complaint is sent, or
\* a send raises after the complaints before it went out.
listing_send(p) ==
    /\ pc[p] = "list_send"
    /\ \/ /\ shown' = [shown EXCEPT ![p].sent = shown[p].renders]
          /\ IF mark_dispatched(update[p].kind)
             THEN Goto(p, "list_mark") /\ UNCHANGED <<locals, result>>
             ELSE Finish(p, "shown", NoResult)
       \/ \E k \in shown[p].renders :
             /\ shown' = [shown EXCEPT ![p].sent = {c \in shown[p].renders : c < k}]
             /\ Raise(p)
    /\ UNCHANGED <<store, update, outbox, delivered, faults, external,
                   listing_frame>>

\* await services.mark_complaints_dispatched([r.complaint_id for r in renders])
listing_mark(p) ==
    /\ pc[p] = "list_mark"
    /\ \E f \in FaultChoices :
          LET r == db_mark_complaints_dispatched(shown[p].renders, f)
          IN  /\ CountFault(f)
              /\ complaints' = r.table
              /\ IF r.raised THEN Raise(p) ELSE Finish(p, "shown", NoResult)
    /\ UNCHANGED <<users, generation_queue, update, outbox, delivered, external, unit>>

NextDispatch ==
    \/ \E p \in Procs : handle_listing(p)
    \/ \E p \in Procs : listing_is_moderator(p)
    \/ \E p \in Procs : listing_fetch(p)
    \/ \E p \in Procs : listing_send(p)
    \/ \E p \in Procs : listing_mark(p)

SpecDispatch == InitDispatch /\ [][NextDispatch]_vars

\* ------------------------------------------- the notification taken alone
\* _notify_user: get_bot_record_for_user(bot_hash), then the send through
\* the bot record it returned.  Neither query has an except clause; whatever
\* is raised inside _notify_user is caught there and answered False.
BotIds == {1, 2, 3}

TokenHashes == {"h1", "h2"}

\* The hints: none, the empty string, the hash of some bot, a hash of none.
Hints == {NULL, Some(""), Some("h1"), Some("h2"), Some("h9")}

\* created_at of the bot rows, not in the order of their ids
CreatedAt == [b \in BotIds |-> IF b = 1 THEN 30 ELSE IF b = 2 THEN 10 ELSE 20]

InitBots ==
    /\ \E i \in InitialStores :
          InitStore(i) /\ i.subcategory_id = NULL /\ i.reserved_balance = NULL
    /\ InitRuns
    /\ InitGateway
    /\ InitViews
    /\ InitPaymentRows
    /\ cost_query = NoCostQuery
    /\ \E hash \in [BotIds -> TokenHashes], active \in [BotIds -> BOOLEAN] :
          bots = [b \in BotIds |->
                     [token_hash |-> hash[b], is_active |-> active[b],
                      created_at |-> CreatedAt[b]]]

\* What the steps of _notify_user leave alone.
notify_frame == <<store, update, locals, result, answer, response, outbox, external,
                  connections, attempts, call, cost_query, shown, bots, ledger,
                  payments, buttons, storage>>

\* db_get_bot_by_token_hash over every row of bot, inactive ones included.
db_get_bot_by_token_hash_any(token_hash) ==
    {b \in DOMAIN bots : bots[b].token_hash = token_hash}

\* db_get_bot_by_token_hash: the rows of SELECT * FROM bot WHERE is_active
\* whose token hashes to token_hash; the function returns the first of them
\* in the order the server sent the rows, None when there is none.
db_get_bot_by_token_hash(token_hash) ==
    {b \in DOMAIN bots : bots[b].is_active /\ bots[b].token_hash = token_hash}

\* db_list_active_bots()[0]: the active row of the greatest created_at
db_list_active_bots ==
    {b \in DOMAIN bots :
        /\ bots[b].is_active
        /\ \A c \in DOMAIN bots : bots[c].is_active => bots[c].created_at <= bots[b].created_at}

\* _notify_user is called with a hint.
_notify_user_call(p) ==
    /\ \/ pc[p] = "idle" /\ (p = "w1" \/ pc["w1"] # "idle")
       \/ pc[p] = "done" /\ \A q \in Procs : pc[q] # "idle"
    /\ delivered < MaxUpdates
    /\ delivered' = delivered + 1
    /\ \E hint \in Hints :
          /\ notice' = [notice EXCEPT ![p] = [NoNotice EXCEPT !.hint = hint]]
          /\ pc' = [pc EXCEPT ![p] =
                       IF hint \notin {NULL, Some("")} THEN "bot_by_hash" ELSE "bot_list"]
    /\ UNCHANGED <<faults, notify_frame>>

\* if bot_hash: bot_row = await db_get_bot_by_token_hash(bot_hash)
get_bot_record_by_hash(p) ==
    /\ pc[p] = "bot_by_hash"
    /\ \E f \in FaultChoices :
          /\ CountFault(f)
          /\ IF f # "ok"
             THEN /\ pc' = [pc EXCEPT ![p] = "done"]
                  /\ notice' = [notice EXCEPT ![p].raised = TRUE]
             ELSE LET rows == db_get_bot_by_token_hash(COALESCE(notice[p].hint, ""))
                  IN  IF rows = {}
                      THEN /\ pc' = [pc EXCEPT ![p] = "bot_list"]
                           /\ UNCHANGED notice
                      ELSE /\ pc' = [pc EXCEPT ![p] = "bot_send"]
                           /\ \E b \in rows : notice' = [notice EXCEPT ![p].bot = Some(b)]
    /\ UNCHANGED <<delivered, notify_frame>>

\* active_bots = await db_list_active_bots(); active_bots[0] or None
get_bot_record_first_active(p) ==
    /\ pc[p] = "bot_list"
    /\ \E f \in FaultChoices :
          /\ CountFault(f)
          /\ IF f # "ok"
             THEN /\ pc' = [pc EXCEPT ![p] = "done"]
                  /\ notice' = [notice EXCEPT ![p].raised = TRUE]
             ELSE IF db_list_active_bots = {}
                  THEN /\ pc' = [pc EXCEPT ![p] = "done"]
                       /\ UNCHANGED notice
                  ELSE /\ pc' = [pc EXCEPT ![p] = "bot_send"]
                       /\ \E b \in db_list_active_bots :
                             notice' = [notice EXCEPT ![p].bot = Some(b)]
    /\ UNCHANGED <<delivered, notify_frame>>

\* Bot(token=bot_record.token).send_message(...): it goes out or it raises.
_notify_user_send(p) ==
    /\ pc[p] = "bot_send"
    /\ \E sent \in BOOLEAN :
          notice' = [notice EXCEPT ![p].sent = sent, ![p].raised = ~sent]
    /\ pc' = [pc EXCEPT ![p] = "done"]
    /\ UNCHANGED <<delivered, faults, notify_frame>>

NextBots ==
    \/ \E p \in Procs : _notify_user_call(p)
    \/ \E p \in Procs : get_bot_record_by_hash(p)
    \/ \E p \in Procs : get_bot_record_first_active(p)
    \/ \E p \in Procs : _notify_user_send(p)

SpecBots == InitBots /\ [][NextBots]_vars

\* ------------------------------------------- the workflows side by side
\* handle_complaint_status: the button of a decided complaint's keyboard,
\* callback data complaint_status_<status>; the handler answers that the
\* status is set already and makes no database call.
handle_complaint_status(p) ==
    /\ \/ pc[p] = "idle" /\ (p = "w1" \/ pc["w1"] # "idle")
       \/ pc[p] = "done" /\ \A q \in Procs : pc[q] # "idle"
    /\ delivered < MaxUpdates
    /\ delivered' = delivered + 1
    /\ \E from_id \in FromIds, c \in CallbackIds :
          update' = [update EXCEPT ![p] =
                        [kind |-> "complaint_status", from_id |-> from_id, arg |-> c]]
    /\ pc' = [pc EXCEPT ![p] = "done"]
    /\ result' = [result EXCEPT ![p] = NoResult]
    /\ answer' = [answer EXCEPT ![p] = "status_already_set"]
    /\ response' = [response EXCEPT ![p] = "ok"]
    /\ outbox' = [outbox EXCEPT ![p] = {}]
    /\ UNCHANGED <<store, locals, faults, external, unit>>

\* The decision, the release as its statements are, the release past its
\* reserved check and the status button, interleaved over one store that
\* nothing else writes.
NextFrame ==
    \/ \E p \in Procs : handle_webhook(p)
    \/ \E p \in Procs : apply_complaint_decision_get(p)
    \/ \E p \in Procs : apply_complaint_decision_status(p)
    \/ \E p \in Procs : apply_complaint_decision_cost(p)
    \/ \E p \in Procs : apply_complaint_decision_credit(p)
    \/ \E p \in Procs : _notify_user(p)
    \/ \E p \in Procs : handle_user_release_reserved(p)
    \/ \E p \in Procs : release_reserved_balance(p)
    \/ \E p \in Procs : release_reserved_balance_checked(p)
    \/ \E p \in Procs : handle_complaint_status(p)

SpecFrame == Init /\ [][NextFrame]_vars

\* ------------------------------------------- the moderator conversation
\* The message handlers and the conversation state the dispatcher keeps per
\* sender: none, or ModeratorStates.waiting_user_lookup.
ModeratorStates == {"waiting_user_lookup"}

\* The message texts: /start, the two menu buttons (their captions written
\* here as "complaints" and "user"), the id of a user with a row and of one
\* without.
Texts == {"/start", "complaints", "user", "1", "2"}

\* The handlers as registered with the lookup handler ahead of the others.
Route_lookup_first(text, state) ==
    IF state = Some("waiting_user_lookup") THEN "user_lookup"
    ELSE IF text = "/start" THEN "cmd_start"
    ELSE IF text = "complaints" THEN "main_complaints"
    ELSE IF text = "user" THEN "main_user"
    ELSE "message"

\* The dispatcher gives a message to the first registered handler whose
\* filter passes: cmd_start (CommandStart), on_main_complaints and
\* on_main_user (F.text ==), handle_user_lookup_state (the state filter),
\* handle_message (no filter).
Route(text, state) ==
    IF text = "/start" THEN "cmd_start"
    ELSE IF text = "complaints" THEN "main_complaints"
    ELSE IF text = "user" THEN "main_user"
    ELSE IF state = Some("waiting_user_lookup") THEN "user_lookup"
    ELSE "message"

\* int(normalized) of a text of digits; 0 stands for a text that is none.
LookupId(text) == IF text = "1" THEN 1 ELSE IF text = "2" THEN 2 ELSE 0

\* services.lookup_user: db_get_user for a text of digits,
\* db_get_user_by_username otherwise, which finds no row here as no user
\* has a username; neither function has an except clause.
lookup_user(text, f) ==
    IF LookupId(text) # 0 THEN db_get_user(LookupId(text), f)
    ELSE [raised |-> f # "ok", found |-> FALSE, user_id |-> 0, reserved_balance |-> 0]

\* Either sender may have been left waiting for a lookup by an earlier "User"
\* message: the sender of id 11 is an admin since deactivated.
InitFsm ==
    /\ \E i \in InitialStores : InitStore(i)
    /\ InitRuns
    /\ InitGateway
    /\ shown = [p \in Procs |-> NoRenders]
    /\ notice = [p \in Procs |-> NoNotice]
    /\ ledger = [u \in UserIds |-> [accepted |-> 0, rejected |-> 0]]
    /\ InitTables
    /\ cost_query = NoCostQuery
    /\ storage \in [FromIds -> {NULL} \cup {Some(st) : st \in ModeratorStates}]

\* What the steps of the message handlers leave alone.
fsm_frame == <<connections, attempts, call, cost_query, bots, notice, ledger,
               payments, buttons>>

\* A message is delivered and routed by its text and its sender's state.
handle_webhook_message(p) ==
    /\ \/ pc[p] = "idle" /\ (p = "w1" \/ pc["w1"] # "idle")
       \/ pc[p] = "done" /\ \A q \in Procs : pc[q] # "idle"
    /\ delivered < MaxUpdates
    /\ delivered' = delivered + 1
    /\ \E text \in Texts, from_id \in FromIds :
          update' = [update EXCEPT ![p] =
                        [kind |-> Route(text, storage[from_id]), from_id |-> from_id,
                         arg |-> 1, text |-> text]]
    /\ pc' = [pc EXCEPT ![p] = "fsm_admin"]
    /\ result' = [result EXCEPT ![p] = NoResult]
    /\ answer' = [answer EXCEPT ![p] = "none"]
    /\ response' = [response EXCEPT ![p] = "none"]
    /\ outbox' = [outbox EXCEPT ![p] = {}]
    /\ shown' = [shown EXCEPT ![p] = NoRenders]
    /\ UNCHANGED <<store, locals, faults, external, storage, fsm_frame>>

\* The is_moderator test every message handler starts with and what the
\* handler does up to its next database call: cmd_start and on_main_complaints
\* clear the state, on_main_user sets it, handle_message answers.
message_is_moderator(p) ==
    /\ pc[p] = "fsm_admin"
    /\ \E f \in FaultChoices :
          LET r == db_is_admin(update[p].from_id, f)
              kind == update[p].kind
              from_id == update[p].from_id
          IN  /\ CountFault(f)
              /\ IF r.raised
                 THEN Raise(p) /\ UNCHANGED storage
                 ELSE IF ~r.value
                      THEN /\ Finish(p, IF kind = "cmd_start" THEN "no_access" ELSE "none",
                                     NoResult)
                           /\ UNCHANGED storage
                      ELSE IF kind = "cmd_start"
                      THEN /\ storage' = [storage EXCEPT ![from_id] = NULL]
                           /\ Finish(p, "main_menu", NoResult)
                      ELSE IF kind = "main_complaints"
                      THEN /\ storage' = [storage EXCEPT ![from_id] = NULL]
                           /\ Goto(p, "list_fetch")
                           /\ UNCHANGED <<locals, result>>
                      ELSE IF kind = "main_user"
                      THEN /\ storage' = [storage EXCEPT ![from_id] =
                                              Some("waiting_user_lookup")]
                           /\ Finish(p, "ask_user", NoResult)
                      ELSE IF kind = "user_lookup"
                      THEN /\ Goto(p, "fsm_lookup")
                           /\ UNCHANGED <<locals, result, storage>>
                      ELSE Finish(p, "use_menu", NoResult) /\ UNCHANGED storage
    /\ UNCHANGED <<store, update, outbox, delivered, external, shown, fsm_frame>>

\* handle_user_lookup_state: info = await services.lookup_user(text); without
\* a user the state stays, with one it is cleared.
handle_user_lookup_state(p) ==
    /\ pc[p] = "fsm_lookup"
    /\ \E f \in FaultChoices :
          LET r == lookup_user(update[p].text, f)
          IN  /\ CountFault(f)
              /\ IF r.raised
                 THEN Raise(p) /\ UNCHANGED storage
                 ELSE IF ~r.found
                      THEN Finish(p, "user_not_found", NoResult) /\ UNCHANGED storage
                      ELSE /\ storage' = [storage EXCEPT ![update[p].from_id] = NULL]
                           /\ Finish(p, "user_info", NoResult)
    /\ UNCHANGED <<store, update, outbox, delivered, external, shown, fsm_frame>>

NextFsm ==
    \/ \E p \in Procs : handle_webhook_message(p)
    \/ \E p \in Procs : message_is_moderator(p)
    \/ \E p \in Procs : handle_user_lookup_state(p)
    \/ \E p \in Procs : listing_fetch(p)
    \/ \E p \in Procs : listing_send(p)
    \/ \E p \in Procs : listing_mark(p)

SpecFsm == InitFsm /\ [][NextFsm]_vars

\* ----------------------------------------------- the payment re-check
\* handle_user_payments sends each payment of a user with a keyboard whose
\* callback data is payment_recheck:<id>:<status as stored then>;
\* handle_payment_recheck handles such a callback; the payment provider
\* completes pending payments meanwhile.
PaymentIds == {1, 2}

PaymentStatuses == {"pending", "completed", "failed"}

\* Payment 2 has no row; a keyboard for it is still in a chat.
InitPayment ==
    /\ \E i \in InitialStores :
          InitStore(i) /\ i.subcategory_id = NULL /\ i.reserved_balance = NULL
    /\ InitRuns
    /\ InitGateway
    /\ InitViews
    /\ InitBotRows
    /\ cost_query = NoCostQuery
    /\ \E status \in PaymentStatuses :
          payments = [y \in PaymentIds |-> [present |-> y = 1, status |-> status]]
    /\ buttons = {[payment_id |-> 2, status |-> "pending"]}

\* What the steps of the payment handlers leave alone.
payment_frame == <<store, locals, outbox, connections, attempts, call, cost_query,
                   shown, bots, notice, ledger, storage>>

\* db_update_payment_status_by_id: UPDATE payments SET status WHERE id; False
\* for "UPDATE 0" and for a statement error, which is logged.
db_update_payment_status_by_id(payment_id, status, f) ==
    IF f = "conn" THEN [raised |-> TRUE, value |-> FALSE, table |-> payments]
    ELSE IF f = "stmt" \/ ~payments[payment_id].present
         THEN [raised |-> FALSE, value |-> FALSE, table |-> payments]
         ELSE [raised |-> FALSE, value |-> TRUE,
               table |-> [payments EXCEPT ![payment_id].status = status]]

\* handle_user_payments by the active admin: the payments are fetched and
\* each is sent with its keyboard.
handle_user_payments(p) ==
    /\ \/ pc[p] = "idle" /\ (p = "w1" \/ pc["w1"] # "idle")
       \/ pc[p] = "done" /\ \A q \in Procs : pc[q] # "idle"
    /\ delivered < MaxUpdates
    /\ delivered' = delivered + 1
    /\ update' = [update EXCEPT ![p] = [kind |-> "user_payments", from_id |-> 10, arg |-> 1]]
    /\ pc' = [pc EXCEPT ![p] = "done"]
    /\ buttons' = buttons \cup {[payment_id |-> y, status |-> payments[y].status] :
                                  y \in {z \in PaymentIds : payments[z].present}}
    /\ result' = [result EXCEPT ![p] = NoResult]
    /\ answer' = [answer EXCEPT ![p] = "payments_shown"]
    /\ response' = [response EXCEPT ![p] = "ok"]
    /\ UNCHANGED <<payments, faults, external, payment_frame>>

\* The payment provider completes a pending payment.
ExternalPayment(y) ==
    /\ external < MaxExternal
    /\ external' = external + 1
    /\ payments[y].present /\ payments[y].status = "pending"
    /\ payments' = [payments EXCEPT ![y].status = "completed"]
    /\ UNCHANGED <<pc, update, result, answer, response, delivered, faults, buttons,
                   payment_frame>>

\* A moderator presses the button of one of the keyboards sent.
handle_webhook_payment_recheck(p) ==
    /\ \/ pc[p] = "idle" /\ (p = "w1" \/ pc["w1"] # "idle")
       \/ pc[p] = "done" /\ \A q \in Procs : pc[q] # "idle"
    /\ delivered < MaxUpdates
    /\ delivered' = delivered + 1
    /\ \E b \in buttons, from_id \in FromIds :
          update' = [update EXCEPT ![p] =
                        [kind |-> "payment_recheck", from_id |-> from_id,
                         arg |-> b.payment_id, status |-> b.status]]
    /\ pc' = [pc EXCEPT ![p] = "recheck_admin"]
    /\ result' = [result EXCEPT ![p] = NoResult]
    /\ answer' = [answer EXCEPT ![p] = "none"]
    /\ response' = [response EXCEPT ![p] = "none"]
    /\ UNCHANGED <<payments, buttons, faults, external, payment_frame>>

\* handle_payment_recheck: is_moderator, the callback data, the test of the
\* status the callback data carries.
handle_payment_recheck(p) ==
    /\ pc[p] = "recheck_admin"
    /\ \E f \in FaultChoices :
          LET r == db_is_admin(update[p].from_id, f)
          IN  /\ CountFault(f)
              /\ IF r.raised
                 THEN /\ pc' = [pc EXCEPT ![p] = "done"]
                      /\ response' = [response EXCEPT ![p] = "fail"]
                      /\ UNCHANGED answer
                 ELSE IF ~r.value
                      THEN /\ pc' = [pc EXCEPT ![p] = "done"]
                           /\ response' = [response EXCEPT ![p] = "ok"]
                           /\ answer' = [answer EXCEPT ![p] = "no_access"]
                      ELSE IF update[p].status = "completed"
                           THEN /\ pc' = [pc EXCEPT ![p] = "done"]
                                /\ response' = [response EXCEPT ![p] = "ok"]
                                /\ answer' = [answer EXCEPT ![p] = "already_completed"]
                           ELSE /\ pc' = [pc EXCEPT ![p] = "recheck_update"]
                                /\ UNCHANGED <<answer, response>>
    /\ UNCHANGED <<payments, buttons, update, result, delivered, external, payment_frame>>

\* updated = await services.set_payment_status_pending(payment_id) and the
\* answer; on success the keyboard is rebuilt with status pending.
set_payment_status_pending(p) ==
    /\ pc[p] = "recheck_update"
    /\ \E f \in FaultChoices :
          LET r == db_update_payment_status_by_id(update[p].arg, "pending", f)
          IN  /\ CountFault(f)
              /\ payments' = r.table
              /\ pc' = [pc EXCEPT ![p] = "done"]
              /\ IF r.raised
                 THEN /\ response' = [response EXCEPT ![p] = "fail"]
                      /\ UNCHANGED <<answer, buttons>>
                 ELSE /\ response' = [response EXCEPT ![p] = "ok"]
                      /\ answer' = [answer EXCEPT ![p] =
                                       IF r.value THEN "status_pending" ELSE "update_failed"]
                      /\ buttons' = IF r.value
                                    THEN buttons \cup {[payment_id |-> update[p].arg,
                                                         status |-> "pending"]}
                                    ELSE buttons
    /\ UNCHANGED <<update, result, delivered, external, payment_frame>>

NextPayment ==
    \/ \E p \in Procs : handle_user_payments(p)
    \/ \E y \in PaymentIds : ExternalPayment(y)
    \/ \E p \in Procs : handle_webhook_payment_recheck(p)
    \/ \E p \in Procs : handle_payment_recheck(p)
    \/ \E p \in Procs : set_payment_status_pending(p)

SpecPayment == InitPayment /\ [][NextPayment]_vars

\* ------------------------------------- one database operation taken alone
\* The connection of a db_* operation from _get_db_conn to conn.close().
\* What the server answers to a connect attempt and to the statements is
\* drawn here; the statements' effects on the tables are in the workflows
\* above.  conn.close() is taken to succeed.
MaxAttempts == 5

LastAttempt == 4

\* asyncpg.connect returns, raises PostgresConnectionError or OSError, or
\* raises anything else.
ConnectOutcomes == {"connected", "transient", "error"}

\* The operations and the ways their try block is left: db_add_credits has no
\* except clause; db_update_complaint_status and db_reset_reserved_balance
\* catch Exception and return a default; db_reset_reserved_balance returns
\* early after its SELECT.
Operations == {"db_add_credits", "db_update_complaint_status", "db_reset_reserved_balance"}

ExitsOf(op) ==
    CASE op = "db_add_credits" -> {"return", "raise"}
      [] op = "db_update_complaint_status" -> {"return", "swallowed"}
      [] op = "db_reset_reserved_balance" -> {"return", "early_return", "swallowed"}

\* _get_db_conn retrying whatever asyncpg.connect raised.
ShouldRetry_any(outcome, attempt) == outcome # "connected" /\ attempt < LastAttempt

\* except (asyncpg.PostgresConnectionError, OSError): if attempt < 4: continue
ShouldRetry(outcome, attempt) == outcome = "transient" /\ attempt < LastAttempt

\* A caller enters a db_* operation: conn = await _get_db_conn()
db_operation_call(p) ==
    /\ \/ pc[p] = "idle" /\ (p = "w1" \/ pc["w1"] # "idle")
       \/ pc[p] = "done" /\ \A q \in Procs : pc[q] # "idle"
    /\ delivered < MaxUpdates
    /\ delivered' = delivered + 1
    /\ \E op \in Operations : call' = [call EXCEPT ![p] = [op |-> op, exit |-> "none"]]
    /\ attempts' = [attempts EXCEPT ![p] = <<>>]
    /\ pc' = [pc EXCEPT ![p] = "connect"]
    /\ UNCHANGED <<store, update, locals, result, answer, response, outbox,
                   faults, external, connections, cost_query, views, ledger>>

\* _get_db_conn: one pass of for attempt in range(5)
_get_db_conn(p) ==
    /\ pc[p] = "connect"
    /\ Len(attempts[p]) < MaxAttempts
    /\ \E outcome \in ConnectOutcomes :
          LET attempt == Len(attempts[p])
          IN  /\ attempts' = [attempts EXCEPT ![p] = Append(@, outcome)]
              /\ IF outcome = "connected"
                 THEN /\ connections' = connections \cup {p}
                      /\ pc' = [pc EXCEPT ![p] = "try"]
                      /\ UNCHANGED call
                 ELSE IF ShouldRetry(outcome, attempt)
                      THEN UNCHANGED <<connections, pc, call>>
                      ELSE /\ pc' = [pc EXCEPT ![p] = "done"]
                           /\ call' = [call EXCEPT ![p].exit = "connect_raise"]
                           /\ UNCHANGED connections
    /\ UNCHANGED <<store, update, locals, result, answer, response, outbox,
                   delivered, faults, external, cost_query, views, ledger>>

\* The try block of the operation, left in one of the ways it can be left.
db_operation_try(p) ==
    /\ pc[p] = "try"
    /\ \E exit \in ExitsOf(call[p].op) : call' = [call EXCEPT ![p].exit = exit]
    /\ pc' = [pc EXCEPT ![p] = "finally"]
    /\ UNCHANGED <<store, update, locals, result, answer, response, outbox,
                   delivered, faults, external, connections, attempts, cost_query, views, ledger>>

\* The connection closed at the end of the try block instead of in finally.
db_operation_finally_on_return(p) ==
    /\ pc[p] = "finally"
    /\ connections' = IF call[p].exit = "return" THEN connections \ {p} ELSE connections
    /\ pc' = [pc EXCEPT ![p] = "done"]
    /\ UNCHANGED <<store, update, locals, result, answer, response, outbox,
                   delivered, faults, external, attempts, call, cost_query, views, ledger>>

\* finally: await conn.close()
db_operation_finally(p) ==
    /\ pc[p] = "finally"
    /\ connections' = connections \ {p}
    /\ pc' = [pc EXCEPT ![p] = "done"]
    /\ UNCHANGED <<store, update, locals, result, answer, response, outbox,
                   delivered, faults, external, attempts, call, cost_query, views, ledger>>

NextGateway ==
    \/ \E p \in Procs : db_operation_call(p)
    \/ \E p \in Procs : _get_db_conn(p)
    \/ \E p \in Procs : db_operation_try(p)
    \/ \E p \in Procs : db_operation_finally(p)

SpecGateway == Init /\ [][NextGateway]_vars

\* =================================================================== claims
DecideKinds == {"complaint_accept", "complaint_reject"}

ReleaseLabels == {"release_get", "release_active", "release_select", "release_update"}

\* apply_complaint_decision has returned its ComplaintDecisionResult to the
\* handler, which is about to notify the user.
Decided(p) ==
    update[p].kind \in DecideKinds /\ pc[p] = "notify" /\ result[p].kind = "decision"

\* The cost the claims call resolved: the cost policy's value for the
\* complaint's subcategory, 200 for a complaint without one.
ResolvedCost(row) ==
    IF row.subcategory_id \notin {NULL, Some(0)}
    THEN db_get_generation_cost_by_subcategory(COALESCE(row.subcategory_id, 0), "ok").value
    ELSE DefaultCost

IsActiveAdmin(from_id) == \E a \in admins : a.user_id = from_id /\ a.is_active

HasActiveGeneration(u) == db_user_has_active_generations(u, "ok").value

StoredReserved(u) == COALESCE(users[u].reserved_balance, 0)

\* A step of the handler run in slot p.
RunStep(p) == pc[p] \notin {"idle", "done"} /\ pc'[p] # pc[p]

\* The step in which release_reserved_balance returns its result.
ReleaseReturns(p) ==
    /\ update[p].kind = "user_release_reserved"
    /\ pc[p] \in ReleaseLabels
    /\ pc'[p] = "done"
    /\ result'[p].kind # "none"

\* No other handler run and no step of the generation service.
NoInterference == delivered = 1 /\ external = 0

\* C1: a completed accept of a complaint read as pending has left the status
\* accepted by its status write and has raised the owner's balance by exactly
\* the resolved cost by its credit write.
C1_AcceptSetsAcceptedAndRefundsCost ==
    \A p \in Procs :
        (Decided(p) /\ update[p].kind = "complaint_accept" /\ complaint[p].status = "pending")
        => /\ effect[p].status_after = "accepted"
           /\ effect[p].balance_after = effect[p].balance_before + ResolvedCost(complaint[p])

\* C2: a completed reject of an existing complaint has left the status
\* rejected by its status write and has lowered the owner's balance by exactly
\* the resolved cost, below zero if need be.
C2_RejectSetsRejectedAndChargesCost ==
    \A p \in Procs :
        (Decided(p) /\ update[p].kind = "complaint_reject" /\ complaint[p].found)
        => /\ effect[p].status_after = "rejected"
           /\ effect[p].balance_after = effect[p].balance_before - ResolvedCost(complaint[p])

\* C3: every step of a decision on a complaint id that has no row leaves the
\* complaints and users tables as they were, sends no notification and ends
\* the run; a run that returns returns None with the "complaint not found"
\* alert.  The store being as it was, the next decision on that id does the
\* same.
C3_MissingComplaintIsNoOp ==
    [][\A p \in Procs :
          (RunStep(p) /\ update[p].kind \in DecideKinds /\ update[p].arg \notin DOMAIN complaints)
          => /\ complaints' = complaints
             /\ users' = users
             /\ outbox'[p] = {}
             /\ pc'[p] = "done"
             /\ result'[p] = NoResult
             /\ (response'[p] = "ok" => answer'[p] = "complaint_not_found")]_vars

\* Two decisions on an id without a row have both been answered "complaint
\* not found".
C3_Witness ==
    \A p \in Procs :
        /\ pc[p] = "done"
        /\ update[p].kind \in DecideKinds
        /\ update[p].arg \notin DOMAIN complaints
        /\ answer[p] = "complaint_not_found"
        /\ result[p] = NoResult
        /\ outbox[p] = {}

\* C4: no step of a handler run whose sender is not an active admins row
\* changes the complaints, the users, or sends a notification to an end user.
C4_NonAdminChangesNothing ==
    [][\A p \in Procs :
          (RunStep(p) /\ ~IsActiveAdmin(update[p].from_id))
          => /\ complaints' = complaints
             /\ users' = users
             /\ outbox'[p] = {}]_vars

\* C5: once a complaint's status is accepted or rejected no step changes it.
C5_DecidedStatusIsTerminal ==
    [][\A c \in DOMAIN complaints :
          complaints[c].status # "pending" => complaints'[c].status = complaints[c].status]_vars

\* C6: every completed decision, whatever the status it found, has set the
\* status to its verdict's value and has moved the owner's balance by its
\* signed cost once more.
C6_EveryDecisionWritesVerdictAndDelta ==
    \A p \in Procs :
        Decided(p)
        => /\ effect[p].status_after = COMPLAINT_DECISIONS(action_key(p)).status
           /\ effect[p].balance_after =
                 effect[p].balance_before
                    + generation_cost[p] * COMPLAINT_DECISIONS(action_key(p)).delta_sign

\* C7: without interference, the release for a user with reserved r > 0 and no
\* active generation returns success with released = r and leaves reserved 0.
C7_ReleaseReturnsReservedAndZeroes ==
    [][\A p \in Procs :
          (/\ ReleaseReturns(p)
           /\ NoInterference
           /\ users[update[p].arg].present
           /\ StoredReserved(update[p].arg) > 0
           /\ ~HasActiveGeneration(update[p].arg))
          => /\ result'[p].success
             /\ result'[p].released = StoredReserved(update[p].arg)
             /\ users'[update[p].arg].reserved_balance = Some(0)]_vars

\* C8: without interference, the release for a user with reserved > 0 and an
\* active generation returns the active-generations refusal, leaves the users
\* table as it was and does not return from within db_reset_reserved_balance.
C8_ActiveGenerationRefuses ==
    [][\A p \in Procs :
          (/\ ReleaseReturns(p)
           /\ NoInterference
           /\ users[update[p].arg].present
           /\ StoredReserved(update[p].arg) > 0
           /\ HasActiveGeneration(update[p].arg))
          => /\ result'[p].kind = "active_generations"
             /\ ~result'[p].success
             /\ users' = users
             /\ pc[p] \notin {"release_select", "release_update"}]_vars

\* C9: when db_get_user of a release finds no row, or a row whose reserved
\* balance is NULL, zero or negative, the release returns from that very
\* step, before the active-generation check and the reset: not success,
\* nothing released, "user not found" or "nothing to release" respectively,
\* and the store as it was.
C9_NothingToReleaseIsNoOp ==
    [][\A p \in Procs :
          (/\ update[p].kind = "user_release_reserved"
           /\ pc[p] = "release_get"
           /\ pc'[p] # pc[p]
           /\ response'[p] # "fail"
           /\ (~users[update[p].arg].present \/ StoredReserved(update[p].arg) <= 0))
          => /\ pc'[p] = "done"
             /\ ~result'[p].success
             /\ result'[p].released = 0
             /\ result'[p].kind = IF users[update[p].arg].present
                                  THEN "nothing_to_release" ELSE "user_not_found"
             /\ complaints' = complaints
             /\ users' = users
             /\ generation_queue' = generation_queue]_vars

\* One release has answered "user not found" for a user without a row, the
\* other "nothing to release" for a user whose reserved balance is NULL or 0.
C9_Witness ==
    \E p, q \in Procs :
        /\ pc[p] = "done" /\ pc[q] = "done"
        /\ result[p].kind = "user_not_found"
        /\ ~users[update[p].arg].present
        /\ result[q].kind = "nothing_to_release"
        /\ users[update[q].arg].present
        /\ users[update[q].arg].reserved_balance \in {NULL, Some(0)}

ReleaseStopsAtGetUser ==
    \A p \in Procs : pc[p] \notin {"release_active", "release_select", "release_update"}

C12_NothingLeftToResetIsFailure ==
    [][\A p \in Procs :
          (/\ pc[p] \in {"release_select", "release_update"}
           /\ pc'[p] # pc[p]
           /\ \/ pc[p] = "release_select" /\ StoredReserved(update[p].arg) <= 0
              \/ pc[p] = "release_select" /\ ~users[update[p].arg].present
              \/ pc[p] = "release_update" /\ users'[update[p].arg].reserved_balance # Some(0))
          => /\ pc'[p] = "done"
             /\ ~result'[p].success
             /\ result'[p].released = 0
             /\ users' = users
             /\ (response'[p] = "ok" => result'[p].kind = "release_failed")]_vars

\* Two releases passed the check; the first has zeroed the reserved balance
\* and the second, entering the reset after it, has reported failure.
C12_Witness ==
    \E p, q \in Procs :
        /\ pc[p] = "done" /\ pc[q] = "done"
        /\ update[p].arg = update[q].arg
        /\ result[p].kind = "released"
        /\ result[q].kind = "release_failed"
        /\ users[update[q].arg].reserved_balance = Some(0)
        /\ faults = 0

\* The price table of the cost policy, by tier and tag.
PriceTable ==
    [tier \in {5, 10, 15} |->
        IF tier = 5 THEN [low |-> 70, medium |-> 90, high |-> 110]
        ELSE IF tier = 10 THEN [low |-> 90, medium |-> 110, high |-> 130]
        ELSE [low |-> 110, medium |-> 130, high |-> 150]]

Spellings ==
    [low |-> {"low", "Low", "LOW"},
     medium |-> {"medium", "Medium", "MEDIUM"},
     high |-> {"high", "High", "HIGH"}]

\* The price of a tier and a non-empty tag: the table value of the tag read
\* without regard to case, 110 for a tag the table does not have.
PriceOf(tier, tag) ==
    IF \E name \in DOMAIN Spellings : tag \in Spellings[name]
    THEN PriceTable[tier][CHOOSE name \in DOMAIN Spellings : tag \in Spellings[name]]
    ELSE 110

Tier(d) == IF d <= 5 THEN 5 ELSE IF d <= 10 THEN 10 ELSE 15

HasTag(row) == row.difficulty # NULL /\ row.difficulty # Some("")

Resolved == cost_query.value # NULL

C14_LegacyPriceVerbatim ==
    Resolved =>
        IF HasTag(cost_query.row)
        THEN cost_query.value \in {Some(PriceOf(t, COALESCE(cost_query.row.difficulty, ""))) :
                                      t \in {5, 10, 15}}
        ELSE IF cost_query.row.price # NULL
             THEN cost_query.value = cost_query.row.price
             ELSE cost_query.value = Some(200)

\* The status and the signed cost of the decision the run in slot p applies.
Verdict(p) == IF update[p].kind = "complaint_accept" THEN "accepted" ELSE "rejected"

SignedCost(p) ==
    IF update[p].kind = "complaint_accept" THEN generation_cost[p] ELSE -generation_cost[p]

\* The store failed the database call made in this step.
StoreFailed == faults' # faults

\* C15: a status update that fails ends the decision there: the run fails,
\* no credit is applied, no outcome is returned and nothing is sent.
C15_FailedStatusWriteEndsDecision ==
    [][\A p \in Procs :
          (pc[p] = "decide_status" /\ pc'[p] # pc[p] /\ StoreFailed)
          => /\ pc'[p] = "done"
             /\ response'[p] = "fail"
             /\ result'[p].kind = "none"
             /\ outbox'[p] = {}
             /\ users' = users]_vars

\* C16: a credit update that fails after the status update went through ends
\* the run with the failure and rolls nothing back: the complaint keeps the
\* status it has (the new one when no other run wrote it meanwhile) and the
\* balances are as they were.
C16_FailedCreditKeepsStatus ==
    [][\A p \in Procs :
          (/\ pc[p] = "decide_credit" /\ pc'[p] # pc[p] /\ StoreFailed
           /\ effect[p].status_after = Verdict(p))
          => /\ pc'[p] = "done"
             /\ response'[p] = "fail"
             /\ result'[p].kind = "none"
             /\ complaints' = complaints
             /\ users' = users
             /\ (delivered = 1 => complaints'[complaint[p].id].status = Verdict(p))]_vars

\* An accept, alone, has failed at its credit update: the complaint is
\* accepted and the owner's balance is the 0 it started with.
C16_Witness ==
    \E p \in Procs :
        /\ pc[p] = "done" /\ response[p] = "fail"
        /\ update[p].kind = "complaint_accept"
        /\ delivered = 1 /\ faults = 1
        /\ complaints[update[p].arg].status = "accepted"
        /\ complaints[update[p].arg].user_id = 1
        /\ users[1].balance = Some(0)

\* C17: the notification step leaves the complaint and the balances as the
\* decision wrote them, and answers the moderator with the success text
\* exactly when the message went out, with the warning text otherwise.
C17_NotificationNeverUndoes ==
    [][\A p \in Procs :
          (pc[p] = "notify" /\ pc'[p] # pc[p])
          => /\ complaints' = complaints
             /\ users' = users
             /\ pc'[p] = "done"
             /\ response'[p] = "ok"
             /\ result'[p] = result[p]
             /\ (answer'[p] = "moderator_success" <=> outbox'[p] # {})
             /\ (answer'[p] = "moderator_warning" <=> outbox'[p] = {})]_vars

\* An accept, alone and with no store failure, has written status and credit,
\* its notification has failed, and the moderator has the warning text.
C17_Witness ==
    \E p \in Procs :
        /\ pc[p] = "done"
        /\ update[p].kind = "complaint_accept"
        /\ delivered = 1 /\ faults = 0
        /\ answer[p] = "moderator_warning" /\ outbox[p] = {}
        /\ complaints[update[p].arg].status = "accepted"
        /\ result[p].kind = "decision"
        /\ COALESCE(users[result[p].user_id].balance, 0) = result[p].amount

\* C18: a credit update that goes through leaves the owner with a row whose
\* balance is the signed cost when there was no row, and the old balance plus
\* the signed cost when there was one.
C18_MissingOwnerIsCreatedAtZero ==
    [][\A p \in Procs :
          (pc[p] = "decide_credit" /\ pc'[p] = "notify")
          => LET owner == complaint[p].user_id
             IN  /\ users'[owner].present
                 /\ users'[owner].balance =
                       IF users[owner].present
                       THEN Some(COALESCE(users[owner].balance, 0) + SignedCost(p))
                       ELSE Some(SignedCost(p))
                 /\ (users[owner].present =>
                        users'[owner].reserved_balance = users[owner].reserved_balance)
                 /\ \A u \in UserIds \ {owner} : users'[u] = users[u]]_vars

\* A reject, alone, of a complaint whose owner had no row: the owner now has
\* one, with balance -200.
C18_Witness ==
    \E p \in Procs :
        /\ pc[p] = "done"
        /\ update[p].kind = "complaint_reject"
        /\ delivered = 1
        /\ result[p].kind = "decision" /\ result[p].user_id = 2
        /\ users[2].present
        /\ users[2].balance = Some(-DefaultCost)

\* The operation in slot p is over.
Left(p) == pc[p] = "done" /\ call[p].op # "none"

AllTransient(a, n) == \A i \in 1..n : a[i] = "transient"

\* C19: _get_db_conn makes at most 5 attempts; each attempt but the last
\* failed transiently; it is still trying only after fewer than 5 transient
\* failures; it has returned only with the connection of its last attempt;
\* it has raised only on a non-transient error or on the 5th transient one.
C19_AtMostFiveAttempts ==
    \A p \in Procs :
        LET a == attempts[p]
            n == Len(a)
        IN  /\ n <= 5
            /\ AllTransient(a, n - 1)
            /\ (pc[p] = "connect" => AllTransient(a, n) /\ n < 5)
            /\ (pc[p] \in {"try", "finally"} => n >= 1 /\ a[n] = "connected")
            /\ (Left(p) /\ call[p].exit # "connect_raise" => n >= 1 /\ a[n] = "connected")
            /\ (Left(p) /\ call[p].exit = "connect_raise"
                  => n >= 1 /\ (a[n] = "error" \/ (a[n] = "transient" /\ n = 5)))

\* One operation has raised after 5 transient failures, another has its
\* connection from the 5th attempt after 4 of them.
C19_Witness ==
    \E p, q \in Procs :
        /\ Left(p) /\ call[p].exit = "connect_raise"
        /\ attempts[p] = <<"transient", "transient", "transient", "transient", "transient">>
        /\ pc[q] \in {"try", "finally", "done"}
        /\ attempts[q] = <<"transient", "transient", "transient", "transient", "connected">>

\* C20: an operation holds a connection of its own from the return of
\* _get_db_conn to its finally clause and none once it is over, however it
\* left; with no operation in progress no connection is open.
C20_ConnectionClosedOnEveryExit ==
    /\ \A p \in Procs :
          /\ (pc[p] \in {"try", "finally"} => p \in connections)
          /\ (pc[p] \in {"idle", "connect", "done"} => p \notin connections)
    /\ ((\A p \in Procs : pc[p] \in {"idle", "done"}) => Cardinality(connections) = 0)

\* Two operations are over, one by the exception it raised and one by the
\* exception it swallowed, and no connection is open.
C20_Witness ==
    \E p, q \in Procs :
        /\ Left(p) /\ call[p].exit = "raise"
        /\ Left(q) /\ call[q].exit = "swallowed"
        /\ connections = {}

\* C21: a run that is over has been answered {"ok": true} or {"ok": false}:
\* true exactly when the handler ran to its answer to the moderator, false
\* when it raised before; after a failed run the next update is taken as
\* any other.
C21_EveryUpdateIsAnswered ==
    /\ \A p \in Procs :
          pc[p] = "done"
          => /\ response[p] \in {"ok", "fail"}
             /\ (response[p] = "ok" <=> answer[p] # "none")
             /\ (response[p] = "fail" => result[p].kind = "none" /\ outbox[p] = {})
    /\ \A p \in Procs : pc[p] # "done" => response[p] = "none"
    /\ ((\E p \in Procs : pc[p] = "done" /\ response[p] = "fail") /\ delivered < MaxUpdates
          => \E q \in Procs : ENABLED handle_webhook(q))

\* The first update failed and was answered {"ok": false}; the second, taken
\* after it, ran to its end and was answered {"ok": true}.
C21_Witness ==
    /\ pc["w1"] = "done" /\ response["w1"] = "fail"
    /\ pc["w2"] = "done" /\ response["w2"] = "ok"
    /\ delivered = 2

\* C22: a listing handler that has run to its end has left every complaint
\* it sent to the moderator dispatched.
C22_ShownIsDispatched ==
    \A p \in Procs :
        (pc[p] = "done" /\ response[p] = "ok" /\ update[p].kind \in ListKinds)
        => \A c \in shown[p].sent : complaints[c].dispatched

TerminalStatuses == {"failed", "success", "completed"}

\* The active-generation check of the release in slot p is answered by the
\* store, in this step, without a failure.
ActiveCheckAnswered(p) == pc[p] = "release_active" /\ pc'[p] # pc[p] /\ ~StoreFailed

Refused(p) == pc'[p] = "done" /\ result'[p].kind = "active_generations"

ActiveBots == {b \in DOMAIN bots : bots[b].is_active}

\* The active bots whose token hash is the hint of the notification in p.
HintedBots(p) == {b \in ActiveBots : Some(bots[b].token_hash) = notice[p].hint}

C25_CostBeforeStatus ==
    [][\A p \in Procs :
          /\ (pc[p] = "decide_status" /\ complaints' # complaints
                => pc'[p] = "decide_credit")
          /\ (pc[p] = "decide_cost" /\ pc'[p] = "done" /\ response'[p] = "fail" /\ delivered = 1
                => complaints'[complaint[p].id].status = complaint[p].status)]_vars

\* C26: whatever the interleaving, the balance of a user is the balance at
\* start, 0, plus the costs of the accepts that returned minus the costs of
\* the rejects that returned, on complaints of that user.
C26_NoCreditIsLost ==
    \A u \in UserIds :
        COALESCE(users[u].balance, 0) = ledger[u].accepted - ledger[u].rejected

\* Two accepts of complaints of user 1, of cost 200 each, have returned and
\* the balance is 400.
C26_Witness ==
    /\ \A p \in Procs : pc[p] = "done" /\ result[p].kind = "decision"
                           /\ update[p].kind = "complaint_accept"
    /\ ledger[1] = [accepted |-> 2 * DefaultCost, rejected |-> 0]
    /\ users[1].balance = Some(2 * DefaultCost)

\* C27: a step of a payment re-check changes no payment whose stored status
\* is completed; it sets any other stored status of its payment to pending;
\* for a payment id without a row it changes nothing and answers failure.
C27_RecheckSparesCompleted ==
    [][\A p \in Procs :
          (pc[p] \in {"recheck_admin", "recheck_update"} /\ pc'[p] # pc[p])
          => /\ \A y \in PaymentIds :
                   payments[y].present /\ payments[y].status = "completed"
                   => payments'[y] = payments[y]
             /\ (~payments[update[p].arg].present
                  => payments' = payments /\ answer'[p] # "status_pending")]_vars

\* C28: a failed statement of the release guard changes no user row; when the
\* active-generation query fails and the call returns, the release is refused
\* as for an active generation, without success; when a statement of the
\* reset fails and the call returns, the release ends without success, with 0
\* released.
C28_ReleaseFailsClosed ==
    [][\A p \in Procs :
          (pc[p] \in {"release_active", "release_select", "release_update"}
           /\ pc'[p] # pc[p] /\ StoreFailed)
          => /\ users' = users
             /\ (pc[p] = "release_active" /\ response'[p] # "fail"
                    => /\ Refused(p)
                       /\ response'[p] = "ok"
                       /\ ~result'[p].success
                       /\ result'[p].released = reserved[p])
             /\ (pc[p] # "release_active" /\ response'[p] # "fail"
                    => /\ pc'[p] = "done"
                       /\ response'[p] = "ok"
                       /\ result'[p].kind = "release_failed"
                       /\ ~result'[p].success
                       /\ result'[p].released = 0)]_vars

\* A release was refused for active generations although its user has none
\* and no generation has moved: the query failed; the reserve is still there.
C28_Witness ==
    \E p \in Procs :
        /\ pc[p] = "done"
        /\ response[p] = "ok"
        /\ result[p].kind = "active_generations"
        /\ faults = 1
        /\ external = 0
        /\ ~HasActiveGeneration(update[p].arg)
        /\ StoredReserved(update[p].arg) > 0

DecideLabels == {"decide_get", "decide_status", "decide_cost", "decide_credit", "notify"}

\* The step is the handling of a complaint_status_* callback in slot p.
StatusCallbackStep(p) ==
    /\ delivered' # delivered
    /\ update'[p].kind = "complaint_status"
    /\ \A q \in Procs \ {p} : pc'[q] = pc[q] /\ update'[q] = update[q]

\* C29: a step of release_reserved_balance changes no balance, no complaint
\* and no payment; a step of a decision changes no reserved balance of a row
\* (a row it inserts has none), no dispatched flag and the balance of no user
\* but the complaint's owner; the complaint_status_* callback changes nothing
\* stored.
C29_WorkflowsKeepToTheirFields ==
    [][\A p \in Procs :
          /\ (pc[p] \in ReleaseLabels /\ pc'[p] # pc[p])
               => /\ \A u \in UserIds : users'[u].balance = users[u].balance
                  /\ \A u \in UserIds : users'[u].present = users[u].present
                  /\ complaints' = complaints
                  /\ payments' = payments
          /\ (pc[p] \in DecideLabels /\ pc'[p] # pc[p])
               => /\ \A u \in UserIds :
                        \/ users'[u].reserved_balance = users[u].reserved_balance
                        \/ ~users[u].present /\ users'[u].reserved_balance \in {NULL, Some(0)}
                  /\ \A c \in DOMAIN complaints :
                        complaints'[c].dispatched = complaints[c].dispatched
                  /\ \A u \in UserIds :
                        users'[u].balance # users[u].balance
                        => /\ update[p].arg \in DOMAIN complaints
                           /\ complaints[update[p].arg].user_id = u
          /\ StatusCallbackStep(p)
               => /\ store' = store
                  /\ payments' = payments
                  /\ bots' = bots]_vars

\* One run has released a reserve and another has credited a decision to the
\* complaint's owner.
C29_Witness ==
    \E p, q \in Procs :
        /\ pc[p] = "done" /\ result[p].kind = "released" /\ result[p].success
        /\ StoredReserved(update[p].arg) = 0
        /\ pc[q] \in {"notify", "done"} /\ result[q].kind = "decision"
        /\ \E u \in UserIds : ledger[u].accepted + ledger[u].rejected > 0

Waiting == Some("waiting_user_lookup")

\* The is_moderator test of the run in slot p is answered, for an admin.
AdminPasses(p) ==
    pc[p] = "fsm_admin" /\ pc'[p] # pc[p] /\ ~StoreFailed /\ IsActiveAdmin(update[p].from_id)

\* C30: the conversation state of a sender becomes waiting_user_lookup only in
\* the step that passes an admin who sent the "User" text; a lookup that
\* finds no user leaves every state as it is and one that finds a user clears
\* its sender's; the step that passes an admin who sent /start or the
\* "Complaints" text clears the sender's state, waiting or not; no step of a
\* run for a sender who is no active admin changes any state.
C30_ConversationStateMachine ==
    [][/\ \A id \in FromIds :
             (storage'[id] = Waiting /\ storage[id] # Waiting)
             => \E p \in Procs : /\ AdminPasses(p)
                                  /\ update[p].from_id = id
                                  /\ update[p].text = "user"
       /\ \A p \in Procs :
             /\ (AdminPasses(p) /\ update[p].text = "user")
                  => storage' = [storage EXCEPT ![update[p].from_id] = Waiting]
             /\ (AdminPasses(p) /\ update[p].text \in {"/start", "complaints"})
                  => storage' = [storage EXCEPT ![update[p].from_id] = NULL]
             /\ (AdminPasses(p) /\ update[p].text \notin {"/start", "complaints", "user"})
                  => storage' = storage
             /\ (pc[p] = "fsm_lookup" /\ pc'[p] # pc[p])
                  => storage' = IF /\ ~StoreFailed
                                   /\ LookupId(update[p].text) \in UserIds
                                   /\ users[LookupId(update[p].text)].present
                                THEN [storage EXCEPT ![update[p].from_id] = NULL]
                                ELSE storage
             /\ (pc[p] # pc'[p] /\ pc[p] \notin {"idle", "done"}
                    /\ ~IsActiveAdmin(update[p].from_id))
                  => storage' = storage
             /\ (pc[p] # pc'[p] /\ StoreFailed) => storage' = storage]_vars

\* An admin left waiting by a lookup that found no user has sent /start and
\* the state is cleared.
C30_Witness ==
    \E p, q \in Procs :
        /\ pc[p] = "done" /\ answer[p] = "user_not_found"
        /\ pc[q] = "done" /\ answer[q] = "main_menu" /\ update[q].text = "/start"
        /\ update[p].from_id = update[q].from_id
        /\ storage[update[q].from_id] = NULL

====
